---- MODULE Spec2Model ----
(***************************************************************************)
(* Model of src/inept/utilities.py: MemoryBuffer (the episodic log and its *)
(* discounted returns), Sampler (three-tier index selection and data       *)
(* materialization), the tensor-tree utilities, EarlyStopping and          *)
(* RunningStatistics.                                                      *)
(*                                                                         *)
(* Python lists and arrays are TLA+ sequences.  Index VALUES are the       *)
(* 0-based values the program stores; Take adds one on access.             *)
(***************************************************************************)
EXTENDS Integers, Sequences, FiniteSets, TLC

\* ------------------------------------------------------------------ bounds
\* Longest MemoryBuffer log explored.
MaxLen == 3
\* Rewards of a record range over 0..MaxReward.
MaxReward == 1

\* ------------------------------------------------------------- MemoryBuffer
VARIABLES keys, states, actions, action_logs, state_vals, rewards, is_terminals,
          container, buf_call, pr

Range(s) == {s[i] : i \in DOMAIN s}

bufVars == <<keys, states, actions, action_logs, state_vals, rewards, is_terminals,
             container, buf_call, pr>>

\* The seven list attributes of a MemoryBuffer, in the order __init__ binds
\* them.
Fields == <<"keys", "states", "actions", "action_logs", "state_vals", "rewards",
            "is_terminals">>
\* The list objects __init__ creates and binds to the attributes:
\* container[i] is the identity of the list bound to Fields[i].
NewLists == [i \in 1..Len(Fields) |-> i]

\* What the class MemoryBuffer defines; an instance has these and the seven
\* attributes __init__ binds, and nothing else.
MemoryBufferMethods == {"__init__", "__len__", "propagate_rewards", "clear"}
HasAttr(name) == name \in MemoryBufferMethods \cup Range(Fields)

\* The latest call on the buffer: the method, the error raised, and
\* len(buffer) before it.
BufCall(op, raised, before) == [op |-> op, raised |-> raised, len_before |-> before]

\* Entity keys of the records.
Keys == {"A", "B"}
\* The discount factors explored, in halves: 0, 0.5 and 1.
Gammas == 0..2
\* Returns are held as integers in units of 1/Scale, which keeps every product
\* with a discount in halves exact for logs up to MaxLen records.
Scale == 2 ^ MaxLen

Min2(a, b) == IF a <= b THEN a ELSE b

\* list[::-1]
Reversed(s) == [i \in 1..Len(s) |-> s[Len(s) + 1 - i]]

\* Spacing of float32 values around x (x >= 0, in units of 1/Scale): 24
\* significant bits.
RECURSIVE Ulp(_)
Ulp(x) == IF x < 2 ^ 24 THEN 1 ELSE 2 * Ulp(x \div 2)

\* torch.tensor(..., dtype=torch.float32) on one value: round to nearest,
\* ties to even.
Float32(x) ==
    LET u == Ulp(x)
        q == x \div u
        r == x % u
    IN  IF 2 * r > u \/ (2 * r = u /\ q % 2 = 1) THEN (q + 1) * u ELSE q * u

\* One pass of the loop of propagate_rewards over the zipped reversed lists:
\* j is the position in the reversed lists, running the dict running_rewards,
\* acc the list rewards built so far.
RECURSIVE PropagateLoop(_, _, _, _, _, _, _)
PropagateLoop(j, n, rk, rr, rt, gamma, st) ==
    IF j > n THEN st.acc
    ELSE LET key == rk[j]
             r0 == IF rt[j] THEN 0 ELSE st.running[key]
             r1 == rr[j] * Scale + (gamma * r0) \div 2
         IN  PropagateLoop(j + 1, n, rk, rr, rt, gamma,
                 [running |-> [st.running EXCEPT ![key] = r1],
                  acc |-> Append(st.acc, r1)])

\* The same loop with one accumulator shared by every key.
PropagateSharedAccumulator(ks, rs, ts, gamma) ==
    LET n == Min2(Len(ks), Min2(Len(rs), Len(ts)))
        one == [i \in 1..Len(ks) |-> "A"]
        acc == PropagateLoop(1, n, Reversed(one), Reversed(rs), Reversed(ts), gamma,
                   [running |-> [k \in {"A"} |-> 0], acc |-> <<>>])
    IN  [i \in 1..Len(acc) |-> Float32(Reversed(acc)[i])]

\* The same loop without the reset at a terminal record.
PropagateNoTerminalReset(ks, rs, ts, gamma) ==
    LET n == Min2(Len(ks), Min2(Len(rs), Len(ts)))
        never == [i \in 1..Len(ts) |-> FALSE]
        acc == PropagateLoop(1, n, Reversed(ks), Reversed(rs), Reversed(never), gamma,
                   [running |-> [k \in Range(ks) |-> 0], acc |-> <<>>])
    IN  [i \in 1..Len(acc) |-> Float32(Reversed(acc)[i])]

\* MemoryBuffer.propagate_rewards on the lists ks, rs, ts with discount
\* gamma/2: the float32 tensor of returns, in record order.
propagate_rewards(ks, rs, ts, gamma) ==
    LET n == Min2(Len(ks), Min2(Len(rs), Len(ts)))
        acc == PropagateLoop(1, n, Reversed(ks), Reversed(rs), Reversed(ts), gamma,
                   [running |-> [k \in Range(ks) |-> 0], acc |-> <<>>])
    IN  [i \in 1..Len(acc) |-> Float32(Reversed(acc)[i])]

\* No propagate_rewards result is held.
NoCall == [called |-> FALSE, gamma |-> 0, out |-> <<>>]

\* MemoryBuffer.__len__
BufferLen == Len(keys)

\* The collection loop pushes one record: one value onto each of the seven
\* lists.  A result of propagate_rewards held by the caller goes out of
\* date and is dropped.
AppendRecord ==
    /\ Len(keys) < MaxLen
    /\ buf_call' = BufCall("push", "", BufferLen)
    /\ UNCHANGED container
    /\ \E k \in Keys, r \in 0..MaxReward, t \in BOOLEAN :
          /\ keys' = Append(keys, k)
          /\ states' = Append(states, "state")
          /\ actions' = Append(actions, "action")
          /\ action_logs' = Append(action_logs, "action_log")
          /\ state_vals' = Append(state_vals, "state_val")
          /\ rewards' = Append(rewards, r)
          /\ is_terminals' = Append(is_terminals, t)
    /\ pr' = NoCall

\* The caller runs propagate_rewards(gamma) and keeps the tensor returned.
PropagateRewards ==
    /\ \E g \in Gammas :
          pr' = [called |-> TRUE, gamma |-> g,
                 out |-> propagate_rewards(keys, rewards, is_terminals, g)]
    /\ buf_call' = BufCall("propagate_rewards", "", BufferLen)
    /\ UNCHANGED <<keys, states, actions, action_logs, state_vals, rewards, is_terminals,
                   container>>

\* buffer.append(record): the class defines no append and no __getattr__,
\* so the attribute lookup raises AttributeError and the call never runs.
CallAppend ==
    /\ ~HasAttr("append")
    /\ buf_call' = BufCall("append", "AttributeError", BufferLen)
    /\ UNCHANGED <<keys, states, actions, action_logs, state_vals, rewards, is_terminals,
                   container, pr>>

\* clear written with rebinding (self.keys = [], ...): seven new lists.
ClearRebinds ==
    /\ keys' = <<>>
    /\ states' = <<>>
    /\ actions' = <<>>
    /\ action_logs' = <<>>
    /\ state_vals' = <<>>
    /\ rewards' = <<>>
    /\ is_terminals' = <<>>
    /\ container' = [i \in 1..Len(Fields) |-> (container[i] % Len(Fields)) + 1]
    /\ buf_call' = BufCall("clear", "", BufferLen)
    /\ pr' = NoCall

\* MemoryBuffer.clear: del self.<list>[:] on each of the seven lists, which
\* empties the list object in place.
Clear ==
    /\ keys' = <<>>
    /\ states' = <<>>
    /\ actions' = <<>>
    /\ action_logs' = <<>>
    /\ state_vals' = <<>>
    /\ rewards' = <<>>
    /\ is_terminals' = <<>>
    /\ UNCHANGED container
    /\ buf_call' = BufCall("clear", "", BufferLen)
    /\ pr' = NoCall

\* ------------------------------------------------------------------ Sampler
\* The dataset handed to the Sampler holds 1..MaxN records: len(self.memory).
MaxN == 2
\* Tier sizes range over 1..MaxSize, each tier on its own.
MaxSize == 1

VARIABLES memory_len, sizes, mem_stage, gpu_stage,
          idxs, mem_data, mem_rewards, gpu_data, gpu_rewards,
          call, out, trail

samplerVars == <<memory_len, sizes, mem_stage, gpu_stage,
                 idxs, mem_data, mem_rewards, gpu_data, gpu_rewards,
                 call, out, trail>>

\* The latest call of a tree utility made on its own: its arguments, the
\* error raised or the tree returned, and the argument after the call.
VARIABLES tree

treeVars == <<tree>>

\* The EarlyStopping instance, and the calls made on it since it was
\* constructed with what each returned and left behind.
VARIABLES es, es_log

esVars == <<es, es_log>>

\* The RunningStatistics instance, and the latest call made on it with the
\* error it raised, the divisor it used and what it returned.
VARIABLES stats, stats_call

statsVars == <<stats, stats_call>>

\* What a call on the MemoryBuffer, on the Sampler, of a tree utility or on
\* the EarlyStopping instance leaves alone.
besideBuffer == <<samplerVars, treeVars, esVars, statsVars>>
besideSampler == <<bufVars, treeVars, esVars, statsVars>>
besideTree == <<bufVars, samplerVars, esVars, statsVars>>
besideEarlyStopping == <<bufVars, samplerVars, treeVars, statsVars>>
besideRunningStatistics == <<bufVars, samplerVars, treeVars, esVars>>

\* self.stage_dict
stage_dict == [maxbatch |-> 0, batch |-> 1, minibatch |-> 2]
Stages == {stage_dict[name] : name \in DOMAIN stage_dict}

\* Where a tensor lives: the dataset and what is indexed out of it on the
\* host, what .to(self.device) returns on the device; NoDevice is device=None.
Host == "host"
Device == "device"
NoDevice == ""

\* A node of a tensor tree: a torch.Tensor (rows, dev) or a list of nodes.
\* A row is named by the source record it was read from.
NoTensor == [tag |-> "none", rows |-> <<>>, dev |-> NoDevice, members |-> <<>>]
Tensor(rows, dev) == [tag |-> "tensor", rows |-> rows, dev |-> dev, members |-> <<>>]
ListOf(members) == [tag |-> "list", rows |-> <<>>, dev |-> NoDevice, members |-> members]
\* A list node stands for any ordered sequence on the way in (a list, a
\* tuple); what the comprehension of line 274 builds is a list.
\* A dict inside a tree: its entries [key, value] in insertion order.
DictOf(entries) == [tag |-> "dict", rows |-> <<>>, dev |-> NoDevice, members |-> entries]
\* A str, which is what iterating a dict hands to the recursion.
StrNode(text) == [tag |-> "str", rows |-> <<>>, dev |-> NoDevice, members |-> <<>>,
                  text |-> text]
\* A call that raised instead of returning a node.
Raised(error) == [tag |-> error, rows |-> <<>>, dev |-> NoDevice, members |-> <<>>]
IsRaised(x) == x.tag \in {"RecursionError", "TypeError"}

\* idx=None and idx=<an index array>
NoIdx == [set |-> FALSE, v |-> <<>>]
Idx(v) == [set |-> TRUE, v |-> v]

\* x[idx] for an index array of 0-based values.
Take(rows, idx) == [i \in 1..Len(idx) |-> rows[idx[i] + 1]]
\* Whether every value of idx is a position of an array of n rows.
Fits(idx, n) == \A i \in 1..Len(idx) : 0 <= idx[i] /\ idx[i] < n

\* subfunc with the move nested under the selection: the device is applied
\* only when idx is given.
subfuncDeviceOnlyWhenIndexed(x, idx, device) ==
    IF idx.set
    THEN LET x1 == [x EXCEPT !.rows = Take(x.rows, idx.v)]
         IN  IF device # NoDevice THEN [x1 EXCEPT !.dev = device] ELSE x1
    ELSE x

\* subfunc of dict_map_recursive_tensor_idx_to
subfunc(x, idx, device) ==
    LET x1 == IF idx.set THEN [x EXCEPT !.rows = Take(x.rows, idx.v)] ELSE x
    IN  IF device # NoDevice THEN [x1 EXCEPT !.dev = device] ELSE x1

\* recursive_tensor_func with func = subfunc closed over (idx, device).
\* Whatever is not a torch.Tensor is iterated (line 274): a sequence yields
\* its members, a dict yields its keys, a non-empty str yields one-character
\* strs that yield themselves without end (RecursionError), None is not
\* iterable (TypeError).  The first member that raises ends the call; a
\* tensor member never does.
RECURSIVE recursive_tensor_func(_, _, _)
recursive_tensor_func(input, idx, device) ==
    IF input.tag = "tensor" THEN subfunc(input, idx, device)
    ELSE IF input.tag = "none" THEN Raised("TypeError")
    ELSE IF input.tag = "str"
    THEN (IF input.text = "" THEN ListOf(<<>>) ELSE Raised("RecursionError"))
    ELSE LET items == IF input.tag = "dict"
                      THEN [m \in 1..Len(input.members) |-> StrNode(input.members[m].key)]
                      ELSE input.members
             rs == [m \in 1..Len(items) |-> recursive_tensor_func(items[m], idx, device)]
             bad == {m \in 1..Len(items) : items[m].tag # "tensor" /\ IsRaised(rs[m])}
         IN  IF bad = {} THEN ListOf(rs)
             ELSE rs[CHOOSE m \in bad : \A n \in bad : m <= n]

\* dict_map (inplace=False) with func = the recursive application of subfunc
dict_map(dict, idx, device) ==
    [k \in DOMAIN dict |-> recursive_tensor_func(dict[k], idx, device)]

dict_map_recursive_tensor_idx_to(dict, idx, device) == dict_map(dict, idx, device)

\* The error a call of dict_map_recursive_tensor_idx_to ends with, "" when
\* it returns: the first value of the dict whose recursion raised.
RaisedIn(ret) ==
    LET bad == {k \in DOMAIN ret : IsRaised(ret[k])}
    IN  IF bad = {} THEN "" ELSE ret[CHOOSE k \in bad : TRUE].tag

\* dict_map called with inplace=True: the dict passed in holds the results.
DictAfterMapInplace(dict, idx, device) == dict_map(dict, idx, device)

\* The dict passed to dict_map_recursive_tensor_idx_to, after the call:
\* dict_map runs with inplace=False and builds a new dict (line 283).
DictAfterMap(dict, idx, device) == dict

\* The keys of the dataset's dict of tensor trees.
DataKeys == {"states", "actions"}
\* data = None, and data = <a dict of tensor trees>
NoData == [set |-> FALSE, d |-> [k \in DataKeys |-> NoTensor]]
Data(d) == [set |-> TRUE, d |-> d]

\* The rows 0..n-1 of an array of n records.
Arange(n) == [i \in 1..n |-> i - 1]

\* self.memory[idx]: the dataset's dict of tensor trees restricted to the
\* rows idx (a copy, on the host).
MemoryGetItem(idx) ==
    [k \in DataKeys |->
        IF k = "states"
        THEN ListOf(<<Tensor(Take(Arange(memory_len), idx), Host),
                      Tensor(Take(Arange(memory_len), idx), Host)>>)
        ELSE Tensor(Take(Arange(memory_len), idx), Host)]

\* self.rewards: one reward per record of the dataset.
sampler_rewards == Tensor(Arange(memory_len), Host)

\* The rows of the first leaf of a node, and of a dict of trees (every leaf
\* of the dataset has one row per record).
RECURSIVE NodeRows(_)
NodeRows(x) == IF x.tag = "tensor" THEN x.rows
               ELSE IF x.tag = "list" /\ Len(x.members) > 0 THEN NodeRows(x.members[1])
               ELSE <<>>
DataRows(d) == NodeRows(d["actions"])

\* Four slips of lines 327-336: the reset after a materialization tier
\* dropped; an empty previous selection replaced by the whole dataset; a
\* later tier drawing from the whole dataset; tier 0 drawing from its own
\* previous selection.
SampleFromResetDropped(ix, stage) ==
    IF stage = 0 THEN [int |-> TRUE, n |-> memory_len, arr |-> <<>>]
    ELSE [int |-> FALSE, n |-> 0, arr |-> ix[stage]]

SampleFromFallsBackToAll(ix, stage) ==
    IF stage = 0 \/ Len(ix[stage]) = 0 THEN [int |-> TRUE, n |-> memory_len, arr |-> <<>>]
    ELSE IF (stage - 1) \in {mem_stage, gpu_stage}
    THEN [int |-> TRUE, n |-> Len(ix[stage]), arr |-> <<>>]
    ELSE [int |-> FALSE, n |-> 0, arr |-> ix[stage]]

SampleFromAlwaysFull(ix, stage) ==
    IF stage = 0 THEN [int |-> TRUE, n |-> memory_len, arr |-> <<>>]
    ELSE IF (stage - 1) \in {mem_stage, gpu_stage}
    THEN [int |-> TRUE, n |-> Len(ix[stage]), arr |-> <<>>]
    ELSE [int |-> TRUE, n |-> IF Len(ix[stage]) = 0 THEN 0 ELSE memory_len, arr |-> <<>>]

SampleFromKeepsPrevious(ix, stage) ==
    IF stage = 0
    THEN (IF Len(ix[1]) = 0 THEN [int |-> TRUE, n |-> memory_len, arr |-> <<>>]
          ELSE [int |-> FALSE, n |-> 0, arr |-> ix[1]])
    ELSE IF (stage - 1) \in {mem_stage, gpu_stage}
    THEN [int |-> TRUE, n |-> Len(ix[stage]), arr |-> <<>>]
    ELSE [int |-> FALSE, n |-> 0, arr |-> ix[stage]]

\* sample, lines 327-336: where to sample from, an int or an index array.
\* ix is self.idxs (ix[t + 1] is self.idxs[t]).
SampleFrom(ix, stage) ==
    IF stage = 0 THEN [int |-> TRUE, n |-> memory_len, arr |-> <<>>]
    ELSE IF (stage - 1) \in {mem_stage, gpu_stage}
    THEN [int |-> TRUE, n |-> Len(ix[stage]), arr |-> <<>>]
    ELSE [int |-> FALSE, n |-> 0, arr |-> ix[stage]]

\* np.array(range(sample_from)) when sample_from is an int (line 341).
AsArray(sf) == IF sf.int THEN Arange(sf.n) ELSE sf.arr

\* np.random.choice(a, size): the arrays it can return; none when the
\* population is empty and size > 0 (ValueError).
Choice(a, size) ==
    IF size = 0 THEN {<<>>} ELSE [1..size -> Range(AsArray(a))]

\* One copy made by act: from which array, into which field, and whether the
\* rows idxs[stage] were selected on the way.
Copy(src, dst, indexed) == [src |-> src, dst |-> dst, indexed |-> indexed]

\* act, lines 349-352, with the test of line 349 written stage >= mem_stage:
\* every later tier reloads the staging copy.
ActLoadMemAtLaterTiers(c, stage) ==
    IF stage < mem_stage THEN c
    ELSE IF ~Fits(c.idxs[stage + 1], memory_len) THEN [c EXCEPT !.raised = "IndexError"]
    ELSE [c EXCEPT !.mem_data = Data(MemoryGetItem(c.idxs[stage + 1])),
                   !.mem_rewards = subfunc(sampler_rewards, Idx(c.idxs[stage + 1]), NoDevice),
                   !.written = @ \cup {"mem"},
                   !.copies = Append(@, Copy("memory", "mem", TRUE))]

\* act, lines 349-352: load into memory.
ActLoadMem(c, stage) ==
    IF stage # mem_stage THEN c
    ELSE IF ~Fits(c.idxs[stage + 1], memory_len) THEN [c EXCEPT !.raised = "IndexError"]
    ELSE [c EXCEPT !.mem_data = Data(MemoryGetItem(c.idxs[stage + 1])),
                   !.mem_rewards = subfunc(sampler_rewards, Idx(c.idxs[stage + 1]), NoDevice),
                   !.written = @ \cup {"mem"},
                   !.copies = Append(@, Copy("memory", "mem", TRUE))]

\* act, lines 354-361, with the branch of line 356 never taken: the staging
\* copy is indexed by idxs[stage] on the way to the device in every case.
ActLoadGpuAlwaysIndexed(c, stage) ==
    IF stage # gpu_stage \/ c.raised # "" THEN c
    ELSE IF ~c.mem_data.set THEN [c EXCEPT !.raised = "AttributeError"]
    ELSE IF ~Fits(c.idxs[stage + 1], Len(DataRows(c.mem_data.d)))
    THEN [c EXCEPT !.raised = "IndexError"]
    ELSE [c EXCEPT !.gpu_data = Data(dict_map_recursive_tensor_idx_to(
                                         c.mem_data.d, Idx(c.idxs[stage + 1]), Device)),
                   !.gpu_rewards = subfunc(c.mem_rewards, Idx(c.idxs[stage + 1]), Device),
                   !.reads = @ \cup ({"mem"} \ c.written),
                   !.written = @ \cup {"gpu"},
                   !.copies = Append(@, Copy("mem", "gpu", TRUE))]

\* act, lines 354-361, releasing the staging copy once it is on the device.
ActLoadGpuReleasesStaging(c, stage) ==
    IF stage # gpu_stage \/ c.raised # "" THEN c
    ELSE IF ~c.mem_data.set THEN [c EXCEPT !.raised = "AttributeError"]
    ELSE IF ~Fits(c.idxs[stage + 1], Len(DataRows(c.mem_data.d)))
    THEN [c EXCEPT !.raised = "IndexError"]
    ELSE LET idx == IF stage = mem_stage THEN NoIdx ELSE Idx(c.idxs[stage + 1])
         IN  [c EXCEPT !.gpu_data = Data(dict_map_recursive_tensor_idx_to(
                                             c.mem_data.d, idx, Device)),
                       !.gpu_rewards = subfunc(c.mem_rewards, idx, Device),
                       !.mem_data = NoData,
                       !.mem_rewards = NoTensor,
                       !.written = @ \cup {"gpu"},
                       !.copies = Append(@, Copy("mem", "gpu", idx.set))]

\* act, lines 354-361, guarded against a staging copy that is None: the
\* load is skipped and nothing is raised.
ActLoadGpuSkipsUnsetStaging(c, stage) ==
    IF stage # gpu_stage \/ c.raised # "" \/ ~c.mem_data.set THEN c
    ELSE LET idx == IF stage = mem_stage THEN NoIdx ELSE Idx(c.idxs[stage + 1])
         IN  IF ~Fits(idx.v, Len(DataRows(c.mem_data.d)))
             THEN [c EXCEPT !.raised = "IndexError"]
             ELSE [c EXCEPT !.gpu_data = Data(dict_map_recursive_tensor_idx_to(
                                                 c.mem_data.d, idx, Device)),
                            !.gpu_rewards = subfunc(c.mem_rewards, idx, Device),
                            !.reads = @ \cup ({"mem"} \ c.written),
                            !.written = @ \cup {"gpu"},
                            !.copies = Append(@, Copy("mem", "gpu", idx.set))]

\* act, lines 354-361: load into GPU.  dict_map raises AttributeError on a
\* mem_data that is None; an index past the staging copy raises IndexError.
ActLoadGpu(c, stage) ==
    IF stage # gpu_stage \/ c.raised # "" THEN c
    ELSE IF ~c.mem_data.set THEN [c EXCEPT !.raised = "AttributeError",
                                           !.reads = @ \cup ({"mem"} \ c.written)]
    ELSE IF stage = mem_stage
    THEN [c EXCEPT !.gpu_data = Data(dict_map_recursive_tensor_idx_to(
                                         c.mem_data.d, NoIdx, Device)),
                   !.gpu_rewards = subfunc(c.mem_rewards, NoIdx, Device),
                   !.reads = @ \cup ({"mem"} \ c.written),
                   !.written = @ \cup {"gpu"},
                   !.copies = Append(@, Copy("mem", "gpu", FALSE))]
    ELSE IF ~Fits(c.idxs[stage + 1], Len(DataRows(c.mem_data.d)))
    THEN [c EXCEPT !.raised = "IndexError",
                   !.reads = @ \cup ({"mem"} \ c.written)]
    ELSE [c EXCEPT !.gpu_data = Data(dict_map_recursive_tensor_idx_to(
                                         c.mem_data.d, Idx(c.idxs[stage + 1]), Device)),
                   !.gpu_rewards = subfunc(c.mem_rewards, Idx(c.idxs[stage + 1]), Device),
                   !.reads = @ \cup ({"mem"} \ c.written),
                   !.written = @ \cup {"gpu"},
                   !.copies = Append(@, Copy("mem", "gpu", TRUE))]

\* The narrowing with the rewards taken as on line 384, from the source
\* rewards at idxs[stage], in place of the cache's rewards.
NarrowedRewardsFromSource(c, stage, cache, cache_data, cache_rewards) ==
    IF ~cache_data.set
    THEN [c EXCEPT !.raised = "AttributeError", !.reads = @ \cup ({cache} \ c.written)]
    ELSE IF ~Fits(c.idxs[stage + 1], Len(DataRows(cache_data.d)))
    THEN [c EXCEPT !.raised = "IndexError", !.reads = @ \cup ({cache} \ c.written)]
    ELSE [c EXCEPT !.data = Data(dict_map_recursive_tensor_idx_to(
                                     cache_data.d, Idx(c.idxs[stage + 1]), NoDevice)),
                   !.rewards = [subfunc(sampler_rewards, Idx(c.idxs[stage + 1]), NoDevice)
                                   EXCEPT !.dev = cache_rewards.dev],
                   !.reads = @ \cup ({cache} \ c.written)]

\* The narrowing of a cache by idxs[stage] on the way out (lines 373-374 and
\* 380-381): what is returned, or the error raised.
Narrowed(c, stage, cache, cache_data, cache_rewards) ==
    IF ~cache_data.set
    THEN [c EXCEPT !.raised = "AttributeError", !.reads = @ \cup ({cache} \ c.written)]
    ELSE IF ~Fits(c.idxs[stage + 1], Len(DataRows(cache_data.d)))
    THEN [c EXCEPT !.raised = "IndexError", !.reads = @ \cup ({cache} \ c.written)]
    ELSE [c EXCEPT !.data = Data(dict_map_recursive_tensor_idx_to(
                                     cache_data.d, Idx(c.idxs[stage + 1]), NoDevice)),
                   !.rewards = subfunc(cache_rewards, Idx(c.idxs[stage + 1]), NoDevice),
                   !.reads = @ \cup ({cache} \ c.written)]

\* act, lines 368-390, serving every tier at or past mem_stage from the
\* staging cache.
ActReturnFromStagingOnly(c, stage) ==
    IF c.raised # "" THEN c
    ELSE IF stage >= mem_stage
    THEN (IF stage = mem_stage
          THEN [c EXCEPT !.data = c.mem_data, !.rewards = c.mem_rewards,
                         !.reads = @ \cup ({"mem"} \ c.written)]
          ELSE Narrowed(c, stage, "mem", c.mem_data, c.mem_rewards))
    ELSE IF ~Fits(c.idxs[stage + 1], memory_len) THEN [c EXCEPT !.raised = "IndexError"]
    ELSE [c EXCEPT !.data = NoData,
                   !.rewards = subfunc(sampler_rewards, Idx(c.idxs[stage + 1]), NoDevice)]

\* act, lines 368-390: return latest data.
ActReturn(c, stage) ==
    IF c.raised # "" THEN c
    ELSE IF stage >= gpu_stage
    THEN (IF stage = gpu_stage
          THEN [c EXCEPT !.data = c.gpu_data, !.rewards = c.gpu_rewards,
                         !.reads = @ \cup ({"gpu"} \ c.written)]
          ELSE Narrowed(c, stage, "gpu", c.gpu_data, c.gpu_rewards))
    ELSE IF stage >= mem_stage
    THEN (IF stage = mem_stage
          THEN [c EXCEPT !.data = c.mem_data, !.rewards = c.mem_rewards,
                         !.reads = @ \cup ({"mem"} \ c.written)]
          ELSE Narrowed(c, stage, "mem", c.mem_data, c.mem_rewards))
    ELSE IF ~Fits(c.idxs[stage + 1], memory_len) THEN [c EXCEPT !.raised = "IndexError"]
    ELSE [c EXCEPT !.data = NoData,
                   !.rewards = subfunc(sampler_rewards, Idx(c.idxs[stage + 1]), NoDevice)]

\* Sampler.act(stage) run on the fields ix (self.idxs), md, mr, gd, gr: the
\* fields afterwards, the (data, rewards) returned or the error raised, the
\* copies made, and the caches read that this call had not written itself.
act(ix, md, mr, gd, gr, stage) ==
    ActReturn(
        ActLoadGpu(
            ActLoadMem([idxs |-> ix, mem_data |-> md, mem_rewards |-> mr,
                        gpu_data |-> gd, gpu_rewards |-> gr,
                        raised |-> "", data |-> NoData, rewards |-> NoTensor,
                        copies |-> <<>>, reads |-> {}, written |-> {}],
                       stage),
            stage),
        stage)

\* The name of self.idxs[stage] and of a cache among the fields of the Sampler.
IdxName(stage) == <<"idxs", stage>>
CacheName(cache) == <<cache, 0>>

\* No call made yet, and the record of the latest call: the method, the tier,
\* what line 343 stored for an explicit idx, and the fields the call read
\* that had not been written since the iteration began.
NoCallYet == [op |-> "none", stage |-> 0, explicit |-> NoIdx, stale |-> {}]
\* Nothing returned yet.
NoOut == [raised |-> "", data |-> NoData, rewards |-> NoTensor, copies |-> <<>>]

\* The idx arguments tried on an index space of n positions: none, and the
\* one-element index array [0].
ExplicitArgs(n) == IF n = 0 THEN {NoIdx} ELSE {NoIdx, Idx(<<0>>)}

\* The fields written since the current iteration began (stage 0 begins one).
Fresh(stage) ==
    IF stage = 0 \/ Len(trail) # stage THEN {}
    ELSE UNION {trail[i].written : i \in 1..Len(trail)}

\* The calls of the current iteration, while they come in the order 0, 1, 2.
TrailAfter(stage, entry) ==
    IF stage = 0 THEN <<entry>>
    ELSE IF Len(trail) = stage THEN Append(trail, entry)
    ELSE <<>>

\* The record of one stage call kept in trail: the error raised, whether idx
\* was given, the source records of the rewards returned, the fields written.
Entry(raised, explicit, returned, written) ==
    [raised |-> raised, explicit |-> explicit, rows |-> returned.rows, written |-> written]

\* The caller stages the tiers of an iteration in the order 0, 1, 2 and may
\* begin a new iteration at any time; out of that order it stages a tier
\* only while the tier before it has never been sampled.
MayStage(stage) ==
    IF stage = 0 THEN TRUE
    ELSE IF Len(trail) = stage THEN TRUE
    ELSE Len(idxs[stage]) = 0

\* stage(name, idx=e) for the tier stage_dict[name]: sample (lines 326-346),
\* then act (lines 348-390), as one step.
Stage(stage) ==
    /\ MayStage(stage)
    /\ \E sf \in {SampleFrom(idxs, stage)} :
       \E e \in ExplicitArgs(Len(AsArray(sf))) :
          LET \* lines 341-343
              picked == IF e.set THEN Idx(Take(AsArray(sf), e.v)) ELSE NoIdx
              ix1 == IF e.set THEN [idxs EXCEPT ![stage + 1] = picked.v] ELSE idxs
              from == IF e.set THEN [int |-> FALSE, n |-> 0, arr |-> AsArray(sf)] ELSE sf
              sread == IF stage = 0 THEN {} ELSE {IdxName(stage - 1)}
          IN  \E draws \in {Choice(from, sizes[stage + 1])} :
              IF draws = {}
              THEN \* line 346 raises ValueError
                   /\ idxs' = ix1
                   /\ out' = [NoOut EXCEPT !.raised = "ValueError"]
                   /\ call' = [op |-> "stage", stage |-> stage, explicit |-> picked,
                               stale |-> sread \ Fresh(stage)]
                   /\ trail' = TrailAfter(stage,
                                  Entry("ValueError", e.set, NoTensor,
                                        IF e.set THEN {IdxName(stage)} ELSE {}))
                   /\ UNCHANGED <<mem_data, mem_rewards, gpu_data, gpu_rewards>>
              ELSE \E draw \in draws :
                   \E r \in {act([ix1 EXCEPT ![stage + 1] = draw],
                                 mem_data, mem_rewards, gpu_data, gpu_rewards, stage)} :
                      /\ idxs' = r.idxs
                      /\ mem_data' = r.mem_data
                      /\ mem_rewards' = r.mem_rewards
                      /\ gpu_data' = r.gpu_data
                      /\ gpu_rewards' = r.gpu_rewards
                      /\ out' = [raised |-> r.raised, data |-> r.data,
                                 rewards |-> r.rewards, copies |-> r.copies]
                      /\ call' = [op |-> "stage", stage |-> stage, explicit |-> picked,
                                  stale |-> (sread \cup {CacheName(w) : w \in r.reads})
                                            \ Fresh(stage)]
                      /\ trail' = TrailAfter(stage,
                                     Entry(r.raised, e.set, r.rewards,
                                           {IdxName(stage)} \cup
                                           {CacheName(w) : w \in r.written}))
    /\ UNCHANGED <<memory_len, sizes, mem_stage, gpu_stage>>

StageMaxbatch == Stage(stage_dict["maxbatch"]) /\ UNCHANGED besideSampler
StageBatch == Stage(stage_dict["batch"]) /\ UNCHANGED besideSampler
StageMinibatch == Stage(stage_dict["minibatch"]) /\ UNCHANGED besideSampler

\* Names passed to stage() that are no key of stage_dict.
UnknownNames == {"", "Batch", "epoch"}
\* The names passed to stage().
StageNames == DOMAIN stage_dict \cup UnknownNames

\* Line 394 written as self.stage_dict.get(stage, 0): an unknown name falls
\* back to tier 0.
LookupDefaultsToMaxbatch(name) ==
    IF name \in DOMAIN stage_dict THEN [raised |-> "", stage |-> stage_dict[name]]
    ELSE [raised |-> "", stage |-> 0]

\* stage, line 394: self.stage_dict[stage], a KeyError for a name that is no
\* key of the dict.
Lookup(name) ==
    IF name \in DOMAIN stage_dict THEN [raised |-> "", stage |-> stage_dict[name]]
    ELSE [raised |-> "KeyError", stage |-> 0]

\* stage(name), lines 392-398: the lookup of the name, then sample and act.
\* When the lookup raises, the call ends there.
StageByName(name) ==
    \E l \in {Lookup(name)} :
        IF l.raised = "" THEN Stage(l.stage)
        ELSE /\ out' = [NoOut EXCEPT !.raised = l.raised]
             /\ call' = [NoCallYet EXCEPT !.op = "stage", !.stage = -1]
             /\ UNCHANGED <<memory_len, sizes, mem_stage, gpu_stage, idxs,
                            mem_data, mem_rewards, gpu_data, gpu_rewards, trail>>

\* stage(name) for any name, a key of stage_dict or not.
StageNamed == (\E name \in StageNames : StageByName(name)) /\ UNCHANGED besideSampler

\* act(stage) called again for the tier of the latest call, which returned,
\* with no sample in between.
ActAgain ==
    /\ call.op \in {"stage", "act"}
    /\ out.raised = ""
    /\ \E r \in {act(idxs, mem_data, mem_rewards, gpu_data, gpu_rewards, call.stage)} :
           /\ idxs' = r.idxs
           /\ mem_data' = r.mem_data
           /\ mem_rewards' = r.mem_rewards
           /\ gpu_data' = r.gpu_data
           /\ gpu_rewards' = r.gpu_rewards
           /\ out' = [raised |-> r.raised, data |-> r.data,
                      rewards |-> r.rewards, copies |-> r.copies]
           /\ call' = [call EXCEPT !.op = "act"]
    /\ UNCHANGED <<memory_len, sizes, mem_stage, gpu_stage, trail>>
    /\ UNCHANGED besideSampler

\* ------------------------------------------------------------ tree utilities
\* Deepest nesting of the trees handed to the tree utilities on their own.
MaxDepth == 2

\* A leaf: a tensor of MaxN rows on the host.
Leaf == Tensor(Arange(MaxN), Host)
\* The keys of the dicts nested in a tree: a name and the empty string.
TreeKeys == {"a", ""}
\* The sequences of up to two members of a set.
SeqsOver(S) == {<<>>} \cup [1..1 -> S] \cup [1..2 -> S]

\* The trees of depth d at most: a leaf, a sequence of up to two trees, or
\* a dict of one entry.
RECURSIVE Nodes(_)
Nodes(d) ==
    IF d = 0 THEN {Leaf}
    ELSE LET sub == Nodes(d - 1)
         IN  {Leaf}
             \cup {ListOf(ms) : ms \in SeqsOver(sub)}
             \cup {DictOf(<<[key |-> k, value |-> v]>>) : k \in TreeKeys, v \in sub}

\* The dicts handed to dict_map_recursive_tensor_idx_to: a tree under one
\* key and a leaf under the other.
TreeDicts(d) == {[k \in DataKeys |-> IF k = "states" THEN x ELSE Leaf] : x \in Nodes(d)}
\* The idx arguments: None, one row, two rows swapped, one row twice.
TreeIdxs == {NoIdx, Idx(<<0>>), Idx(<<1, 0>>), Idx(<<1, 1>>)}
\* The device arguments: None and the accelerator.
TreeDevices == {NoDevice, Device}

\* A call of a tree utility about to be made on the arguments given, and no
\* call at all.
Pending(op, input, idx, device) ==
    [op |-> op, done |-> FALSE, input |-> input, idx |-> idx, device |-> device,
     raised |-> "", out |-> NoTensor, after |-> input]
NoTreeCall == [op |-> "none"]

\* The calls of the tree utilities made on their own, on trees of depth d
\* at most.
TreeCalls(d) ==
    {Pending("dict_map_recursive_tensor_idx_to", dict, idx, device) :
        dict \in TreeDicts(d), idx \in TreeIdxs, device \in TreeDevices}
    \cup {Pending("recursive_tensor_func", x, idx, device) :
        x \in Nodes(d), idx \in TreeIdxs, device \in TreeDevices}

\* dict_map_recursive_tensor_idx_to(dict, idx, device) called on its own.
CallDictMap ==
    /\ tree.op = "dict_map_recursive_tensor_idx_to"
    /\ ~tree.done
    /\ \E ret \in {dict_map_recursive_tensor_idx_to(tree.input, tree.idx, tree.device)} :
          tree' = [tree EXCEPT
                     !.done = TRUE,
                     !.raised = RaisedIn(ret),
                     !.out = IF RaisedIn(ret) = "" THEN ret
                             ELSE [k \in DOMAIN ret |-> NoTensor],
                     !.after = DictAfterMap(tree.input, tree.idx, tree.device)]
    /\ UNCHANGED besideTree

\* recursive_tensor_func(input, subfunc) called on its own, with subfunc
\* closed over (idx, device).
CallRecursive ==
    /\ tree.op = "recursive_tensor_func"
    /\ ~tree.done
    /\ \E ret \in {recursive_tensor_func(tree.input, tree.idx, tree.device)} :
          tree' = [tree EXCEPT
                     !.done = TRUE,
                     !.raised = IF IsRaised(ret) THEN ret.tag ELSE "",
                     !.out = IF IsRaised(ret) THEN NoTensor ELSE ret]
    /\ UNCHANGED besideTree

\* ------------------------------------------------------------ EarlyStopping
\* Most calls made on one EarlyStopping instance.
MaxCalls == 4
\* Objectives range over 0..MaxObjective.
MaxObjective == 2

\* The constructor's parameters explored: both methods, a buffer of no, one
\* or two lapses, a delta of either sign or none, both directions, and the
\* window sizes whose means are exact in floating point.
Methods == {"absolute", "average"}
Buffers == 0..2
Deltas == -1..1
Decreasings == BOOLEAN
Windows == {1, 2}

\* None, and a number.
Unset == [set |-> FALSE, v |-> 0]
Val(v) == [set |-> TRUE, v |-> v]

\* The numbers of an instance (current, best, threshold) are held as whole
\* multiples of 1/window_size, so that the mean of a full window is whole.
InUnits(e, x) == x * e.window_size

\* No instance: the other classes are exercised without one.
NoEarlyStopping == [method |-> "none"]

RECURSIVE SumOf(_)
SumOf(h) == IF h = <<>> THEN 0 ELSE Head(h) + SumOf(Tail(h))

\* np.mean(self.history), in units of 1/window_size; the window is full
\* when it is taken.
Mean(e, h) == IF Len(h) = e.window_size THEN SumOf(h)
              ELSE InUnits(e, SumOf(h)) \div Len(h)

\* deque.append on a deque of maxlen n.
DequeAppend(h, x, n) ==
    IF n = 0 THEN h
    ELSE IF Len(h) >= n THEN Append(Tail(h), x)
    ELSE Append(h, x)

\* EarlyStopping.reset with the deque left as it is.
resetKeepsHistory(e) ==
    [e EXCEPT !.current = Unset, !.best = Unset, !.threshold = Unset,
              !.lapses = 0]

\* EarlyStopping.reset
reset(e) ==
    [e EXCEPT !.history = <<>>, !.current = Unset, !.best = Unset,
              !.threshold = Unset, !.lapses = 0]

\* EarlyStopping.__init__ with a method it accepts.
EarlyStopping(method, buffer, delta, decreasing, window_size) ==
    reset([method |-> method, buffer |-> buffer, delta |-> delta,
           decreasing |-> decreasing, window_size |-> window_size,
           history |-> <<>>, current |-> Unset, best |-> Unset,
           threshold |-> Unset, lapses |-> 0])

\* EarlyStopping.record_observation
record_observation(e, objective) ==
    IF e.method = "absolute"
    THEN [e EXCEPT !.current = Val(InUnits(e, objective))]
    ELSE LET h == DequeAppend(e.history, objective, e.window_size)
         IN  [e EXCEPT !.history = h,
                       !.current = IF Len(h) >= e.window_size
                                   THEN Val(Mean(e, h)) ELSE e.current]

\* EarlyStopping.calculate_threshold with the sign of delta turned around.
calculate_thresholdTowardsWorse(e) ==
    [e EXCEPT !.threshold =
        Val(e.best.v + (IF e.decreasing THEN 1 ELSE -1) * InUnits(e, e.delta))]

\* EarlyStopping.calculate_threshold
calculate_threshold(e) ==
    [e EXCEPT !.threshold =
        Val(e.best.v + (IF e.decreasing THEN -1 ELSE 1) * InUnits(e, e.delta))]

\* EarlyStopping.set_best with the lapses left as they are.
set_bestKeepsLapses(e, objective) ==
    calculate_threshold([e EXCEPT !.best = Val(objective)])

\* EarlyStopping.set_best
set_best(e, objective) ==
    [calculate_threshold([e EXCEPT !.best = Val(objective)])
        EXCEPT !.lapses = 0]

\* EarlyStopping.__call__: the instance after the call and what it returns.
__call__(e, objective) ==
    LET e1 == record_observation(e, objective)
    IN  IF ~e1.current.set THEN [es |-> e1, ret |-> FALSE]
        ELSE LET e2 == IF ~e1.best.set THEN set_best(e1, e1.current.v)
                       ELSE e1
                 e3 == IF e2.decreasing /\ e2.current.v < e2.threshold.v
                       THEN set_best(e2, e2.current.v)
                       ELSE IF ~e2.decreasing /\ e2.current.v > e2.threshold.v
                       THEN set_best(e2, e2.current.v)
                       ELSE [e2 EXCEPT !.lapses = e2.lapses + 1]
             IN  [es |-> e3, ret |-> e3.lapses >= e3.buffer]

\* One entry of es_log: the call, its argument, what it returned, and what
\* it left in the instance.
EsEntry(op, objective, ret, e) ==
    [op |-> op, objective |-> objective, ret |-> ret, current |-> e.current,
     best |-> e.best, threshold |-> e.threshold, lapses |-> e.lapses]

\* early_stopping(objective) called by the training loop.
EsCall ==
    /\ Len(es_log) < MaxCalls
    /\ \E objective \in 0..MaxObjective :
          \E r \in {__call__(es, objective)} :
             /\ es' = r.es
             /\ es_log' = Append(es_log,
                                 EsEntry("__call__", objective, r.ret, r.es))
    /\ UNCHANGED besideEarlyStopping

\* early_stopping.reset() called by the training loop.
EsReset ==
    /\ Len(es_log) < MaxCalls
    /\ \E e \in {reset(es)} :
          /\ es' = e
          /\ es_log' = Append(es_log, EsEntry("reset", 0, FALSE, e))
    /\ UNCHANGED besideEarlyStopping

\* -------------------------------------------------------- RunningStatistics
\* Most update calls made since construction or the last reset.
MaxUpdates == 3
\* Samples range over 0..MaxSample.
MaxSample == 1

\* The n_set explored: None, and the counts around the n < 2 test.
NSets == {Unset} \cup {Val(k) : k \in 0..3}
\* The (mean, m2) handed to reset: the defaults, and a start away from 0.
ResetArgs == {<<0, 0>>, <<1, 1>>}

\* Numbers are exact fractions num/den in lowest terms with den > 0.
RECURSIVE Gcd(_, _)
Gcd(a, b) == IF b = 0 THEN a ELSE Gcd(b, a % b)

Magnitude(a) == IF a < 0 THEN -a ELSE a

Frac(num, den) ==
    LET g == Gcd(Magnitude(num), Magnitude(den))
        sign == IF den < 0 THEN -1 ELSE 1
    IN  [num |-> sign * (num \div g), den |-> sign * (den \div g)]

Whole(k) == [num |-> k, den |-> 1]
Plus(a, b) == Frac(a.num * b.den + b.num * a.den, a.den * b.den)
Minus(a, b) == Frac(a.num * b.den - b.num * a.den, a.den * b.den)
Times(a, b) == Frac(a.num * b.num, a.den * b.den)
\* a / k for a whole k other than 0.
Over(a, k) == Frac(a.num, a.den * k)

\* No instance: the other classes are exercised without one.
NoRunningStatistics == [absent |-> TRUE]

\* One call on the instance: the error it raised, whether it divided and
\* by what, and what it returned.
RsCall(op, raised, divided, divisor, ret) ==
    [op |-> op, raised |-> raised, divided |-> divided, divisor |-> divisor,
     ret |-> ret]

NoRsCall == [op |-> "none"]

\* RunningStatistics.reset
rs_reset(e, mean, m2) ==
    [e EXCEPT !.mean_x = Whole(mean), !.m2 = Whole(m2), !.n = 0]

\* RunningStatistics.__init__
RunningStatistics(n_set, mean, m2) ==
    [rs_reset([n_set |-> Unset, mean_x |-> Whole(0), m2 |-> Whole(0),
               n |-> 0], mean, m2)
        EXCEPT !.n_set = n_set]

\* The n that update and variance count with.
CountOf(e) == IF e.n_set.set THEN e.n_set.v ELSE e.n

\* RunningStatistics.update: the instance after the call and the call.  The
\* count is raised before delta / n is taken, so it stays raised when the
\* division raises.
update(e, x) ==
    LET e1 == [e EXCEPT !.n = e.n + 1]
        n == CountOf(e1)
        delta == Minus(Whole(x), e1.mean_x)
    IN  IF n = 0
        THEN [stats |-> e1,
              call |-> RsCall("update", "ZeroDivisionError", TRUE, 0, Whole(0))]
        ELSE LET mean_x == Plus(e1.mean_x, Over(delta, n))
                 m2 == Plus(e1.m2, Times(delta, Minus(Whole(x), mean_x)))
             IN  [stats |-> [e1 EXCEPT !.mean_x = mean_x, !.m2 = m2],
                  call |-> RsCall("update", "", TRUE, n, Whole(0))]

\* RunningStatistics.variance: the test is on n_set when it is given, the
\* division is by self.n - 1.
variance(e) ==
    LET n == CountOf(e)
    IN  IF n < 2 THEN RsCall("variance", "", FALSE, 0, Whole(0))
        ELSE IF e.n - 1 = 0
        THEN RsCall("variance", "ZeroDivisionError", TRUE, 0, Whole(0))
        ELSE RsCall("variance", "", TRUE, e.n - 1, Over(e.m2, e.n - 1))

\* statistics.update(x)
RsUpdate ==
    /\ stats.n < MaxUpdates
    /\ \E x \in 0..MaxSample :
          \E r \in {update(stats, x)} :
             /\ stats' = r.stats
             /\ stats_call' = r.call
    /\ UNCHANGED besideRunningStatistics

\* statistics.variance()
RsVariance ==
    /\ stats_call' = variance(stats)
    /\ UNCHANGED stats
    /\ UNCHANGED besideRunningStatistics

\* statistics.reset(mean, m2)
RsReset ==
    /\ \E args \in ResetArgs :
          stats' = rs_reset(stats, args[1], args[2])
    /\ stats_call' = RsCall("reset", "", FALSE, 0, Whole(0))
    /\ UNCHANGED besideRunningStatistics

vars == <<bufVars, samplerVars, treeVars, esVars, statsVars>>

\* MemoryBuffer.__init__, beside a Sampler constructed on one record and
\* left alone.
InitBuffer ==
    /\ keys = <<>>
    /\ states = <<>>
    /\ actions = <<>>
    /\ action_logs = <<>>
    /\ state_vals = <<>>
    /\ rewards = <<>>
    /\ is_terminals = <<>>
    /\ container = NewLists
    /\ buf_call = BufCall("__init__", "", 0)
    /\ pr = NoCall
    /\ memory_len = 1
    /\ sizes = [t \in 1..3 |-> 1]
    /\ mem_stage = 0
    /\ gpu_stage = 0
    /\ idxs = [t \in 1..3 |-> <<>>]
    /\ mem_data = NoData
    /\ mem_rewards = NoTensor
    /\ gpu_data = NoData
    /\ gpu_rewards = NoTensor
    /\ call = NoCallYet
    /\ out = NoOut
    /\ trail = <<>>
    /\ tree = NoTreeCall
    /\ es = NoEarlyStopping
    /\ es_log = <<>>
    /\ stats = NoRunningStatistics
    /\ stats_call = NoRsCall

BufNext ==
    \/ AppendRecord /\ UNCHANGED besideBuffer
    \/ PropagateRewards /\ UNCHANGED besideBuffer
    \/ CallAppend /\ UNCHANGED besideBuffer
    \/ Clear /\ UNCHANGED besideBuffer

\* The MemoryBuffer under its collection loop.
SpecBuffer == InitBuffer /\ [][BufNext]_vars

\* Sampler.__init__ on a non-empty dataset of memory_len records, with any
\* positive tier sizes and any mem_stage and gpu_stage (their order is not
\* checked by the constructor), beside an empty MemoryBuffer left alone.
InitSampler ==
    /\ keys = <<>>
    /\ states = <<>>
    /\ actions = <<>>
    /\ action_logs = <<>>
    /\ state_vals = <<>>
    /\ rewards = <<>>
    /\ is_terminals = <<>>
    /\ container = NewLists
    /\ buf_call = BufCall("__init__", "", 0)
    /\ pr = NoCall
    /\ memory_len \in 1..MaxN
    /\ sizes \in [1..3 -> 1..MaxSize]
    /\ mem_stage \in Stages
    /\ gpu_stage \in Stages
    /\ idxs = [t \in 1..3 |-> <<>>]
    /\ mem_data = NoData
    /\ mem_rewards = NoTensor
    /\ gpu_data = NoData
    /\ gpu_rewards = NoTensor
    /\ call = NoCallYet
    /\ out = NoOut
    /\ trail = <<>>
    /\ tree = NoTreeCall
    /\ es = NoEarlyStopping
    /\ es_log = <<>>
    /\ stats = NoRunningStatistics
    /\ stats_call = NoRsCall

SamplerNext == StageMaxbatch \/ StageBatch \/ StageMinibatch \/ ActAgain

\* The Sampler under the stage calls of its caller, and act called again.
SpecSampler == InitSampler /\ [][SamplerNext]_vars

\* Sampler.__init__ on a dataset of MaxN records with every tier of size
\* MaxSize, in any configuration of mem_stage and gpu_stage.
InitStageNames ==
    /\ keys = <<>>
    /\ states = <<>>
    /\ actions = <<>>
    /\ action_logs = <<>>
    /\ state_vals = <<>>
    /\ rewards = <<>>
    /\ is_terminals = <<>>
    /\ container = NewLists
    /\ buf_call = BufCall("__init__", "", 0)
    /\ pr = NoCall
    /\ memory_len = MaxN
    /\ sizes = [t \in 1..3 |-> MaxSize]
    /\ mem_stage \in Stages
    /\ gpu_stage \in Stages
    /\ idxs = [t \in 1..3 |-> <<>>]
    /\ mem_data = NoData
    /\ mem_rewards = NoTensor
    /\ gpu_data = NoData
    /\ gpu_rewards = NoTensor
    /\ call = NoCallYet
    /\ out = NoOut
    /\ trail = <<>>
    /\ tree = NoTreeCall
    /\ es = NoEarlyStopping
    /\ es_log = <<>>
    /\ stats = NoRunningStatistics
    /\ stats_call = NoRsCall

StageNamesNext == StageNamed

\* The Sampler under stage calls with any name.
SpecStageNames == InitStageNames /\ [][StageNamesNext]_vars

\* A call of a tree utility is about to be made, on any of the trees, idx
\* and devices; no MemoryBuffer call and no Sampler call is made.
InitTree ==
    /\ keys = <<>>
    /\ states = <<>>
    /\ actions = <<>>
    /\ action_logs = <<>>
    /\ state_vals = <<>>
    /\ rewards = <<>>
    /\ is_terminals = <<>>
    /\ container = NewLists
    /\ buf_call = BufCall("__init__", "", 0)
    /\ pr = NoCall
    /\ memory_len = 1
    /\ sizes = [t \in 1..3 |-> 1]
    /\ mem_stage = 0
    /\ gpu_stage = 0
    /\ idxs = [t \in 1..3 |-> <<>>]
    /\ mem_data = NoData
    /\ mem_rewards = NoTensor
    /\ gpu_data = NoData
    /\ gpu_rewards = NoTensor
    /\ call = NoCallYet
    /\ out = NoOut
    /\ trail = <<>>
    /\ tree \in TreeCalls(MaxDepth)
    /\ es = NoEarlyStopping
    /\ es_log = <<>>
    /\ stats = NoRunningStatistics
    /\ stats_call = NoRsCall

TreeNext == CallDictMap \/ CallRecursive

\* The tree utilities called on trees of every shape up to MaxDepth.
SpecTree == InitTree /\ [][TreeNext]_vars

\* EarlyStopping.__init__ with any of the parameters explored; no
\* MemoryBuffer call, no Sampler call and no tree utility call is made.
InitEarlyStopping ==
    /\ keys = <<>>
    /\ states = <<>>
    /\ actions = <<>>
    /\ action_logs = <<>>
    /\ state_vals = <<>>
    /\ rewards = <<>>
    /\ is_terminals = <<>>
    /\ container = NewLists
    /\ buf_call = BufCall("__init__", "", 0)
    /\ pr = NoCall
    /\ memory_len = 1
    /\ sizes = [t \in 1..3 |-> 1]
    /\ mem_stage = 0
    /\ gpu_stage = 0
    /\ idxs = [t \in 1..3 |-> <<>>]
    /\ mem_data = NoData
    /\ mem_rewards = NoTensor
    /\ gpu_data = NoData
    /\ gpu_rewards = NoTensor
    /\ call = NoCallYet
    /\ out = NoOut
    /\ trail = <<>>
    /\ tree = NoTreeCall
    /\ es \in {EarlyStopping(method, buffer, delta, decreasing, window_size) :
                 method \in Methods, buffer \in Buffers, delta \in Deltas,
                 decreasing \in Decreasings, window_size \in Windows}
    /\ es_log = <<>>
    /\ stats = NoRunningStatistics
    /\ stats_call = NoRsCall

EarlyStoppingNext == EsCall \/ EsReset

\* One EarlyStopping instance under the observations and resets of its caller.
SpecEarlyStopping == InitEarlyStopping /\ [][EarlyStoppingNext]_vars

\* RunningStatistics.__init__ with any of the n_set and starts explored; no
\* call is made on the other classes.
InitRunningStatistics ==
    /\ keys = <<>>
    /\ states = <<>>
    /\ actions = <<>>
    /\ action_logs = <<>>
    /\ state_vals = <<>>
    /\ rewards = <<>>
    /\ is_terminals = <<>>
    /\ container = NewLists
    /\ buf_call = BufCall("__init__", "", 0)
    /\ pr = NoCall
    /\ memory_len = 1
    /\ sizes = [t \in 1..3 |-> 1]
    /\ mem_stage = 0
    /\ gpu_stage = 0
    /\ idxs = [t \in 1..3 |-> <<>>]
    /\ mem_data = NoData
    /\ mem_rewards = NoTensor
    /\ gpu_data = NoData
    /\ gpu_rewards = NoTensor
    /\ call = NoCallYet
    /\ out = NoOut
    /\ trail = <<>>
    /\ tree = NoTreeCall
    /\ es = NoEarlyStopping
    /\ es_log = <<>>
    /\ stats \in {RunningStatistics(n_set, args[1], args[2]) :
                 n_set \in NSets, args \in ResetArgs}
    /\ stats_call = RsCall("__init__", "", FALSE, 0, Whole(0))

RunningStatisticsNext == RsUpdate \/ RsVariance \/ RsReset

\* One RunningStatistics instance under the calls of its caller.
SpecRunningStatistics ==
    InitRunningStatistics /\ [][RunningStatisticsNext]_vars

\* ------------------------------------------------------ claims: MemoryBuffer
\* The next later record with the key of record t, or 0 when there is none.
NextSameKey(t) ==
    LET later == {u \in (t + 1)..Len(keys) : keys[u] = keys[t]}
    IN  IF later = {} THEN 0 ELSE CHOOSE u \in later : \A v \in later : u <= v

\* The future return of record t in the tensor out.
FutureReturn(o, t) ==
    IF is_terminals[t] \/ NextSameKey(t) = 0 THEN 0 ELSE o[NextSameKey(t)]

\* C1: propagate_rewards(gamma) returns one entry per record, in record
\* order, with return[t] = reward[t] + gamma * R, where R is 0 when record t
\* is terminal or is the last record of its key, and the return of the next
\* later record of the same key otherwise.
C1_ReturnRecurrence ==
    pr.called =>
        /\ Len(pr.out) = Len(keys)
        /\ \A t \in 1..Len(keys) :
              2 * pr.out[t] = 2 * rewards[t] * Scale + pr.gamma * FutureReturn(pr.out, t)

\* C1 witness: rewards [1,1,1], terminals [False,False,True] of one key and
\* gamma 0.5 give [1.75, 1.5, 1].
C1_Witness ==
    /\ pr.called
    /\ pr.gamma = 1
    /\ keys = <<"A", "A", "A">>
    /\ rewards = <<1, 1, 1>>
    /\ is_terminals = <<FALSE, FALSE, TRUE>>
    /\ 4 * pr.out[1] = 7 * Scale
    /\ 2 * pr.out[2] = 3 * Scale
    /\ pr.out[3] = Scale

\* The positions of the records of key k, in order.
RECURSIVE PositionsOf(_, _)
PositionsOf(k, t) ==
    IF t > Len(keys) THEN <<>>
    ELSE IF keys[t] = k THEN <<t>> \o PositionsOf(k, t + 1)
    ELSE PositionsOf(k, t + 1)

Pick(s, pos) == [i \in 1..Len(pos) |-> s[pos[i]]]

\* C2: the returns at the positions of a key equal the returns that
\* propagate_rewards gives on the log holding only that key's records, in the
\* same relative order, however the keys are interleaved.
C2_InterleavingIndependent ==
    pr.called =>
        \A k \in Keys :
            LET pos == PositionsOf(k, 1)
            IN  Pick(pr.out, pos) =
                    propagate_rewards(Pick(keys, pos), Pick(rewards, pos),
                                      Pick(is_terminals, pos), pr.gamma)

\* C2 witness: a log in which a record of key B lies between two records of
\* key A, none terminal, all with reward 1, propagated with gamma 1.
C2_Witness ==
    /\ pr.called
    /\ pr.gamma = 2
    /\ keys = <<"A", "B", "A">>
    /\ rewards = <<1, 1, 1>>
    /\ is_terminals = <<FALSE, FALSE, FALSE>>
    /\ pr.out = <<2 * Scale, Scale, Scale>>

\* ----------------------------------------------------------- claims: Sampler
\* The calls of the current iteration came in the order 0, 1, ..., and the
\* latest call staged tier t.
StagedInOrder(t) == call.op = "stage" /\ call.stage = t /\ Len(trail) = t + 1

\* The index space of tier t as the specification describes it.
IndexSpace(t) ==
    IF t = 0 THEN 0..(memory_len - 1)
    ELSE IF (t - 1) \in {mem_stage, gpu_stage} THEN 0..(Len(idxs[t]) - 1)
    ELSE Range(idxs[t])

\* C3: after maxbatch, batch and minibatch are staged in order without an
\* explicit idx, idxs[t] holds exactly sizes[t] indices for every tier t, each
\* in the tier's index space: 0..N-1 for tier 0, 0..len(idxs[t-1])-1 after a
\* materialization tier, a value of idxs[t-1] otherwise.
C3_IdxsSizedAndInSpace ==
    (/\ Len(trail) = 3
     /\ \A i \in 1..3 : ~trail[i].explicit /\ trail[i].raised # "ValueError")
    => \A t \in 0..2 :
          /\ Len(idxs[t + 1]) = sizes[t + 1]
          /\ Range(idxs[t + 1]) \subseteq IndexSpace(t)

\* C3 witness: an iteration staged in order with no idx given, in which
\* tier 1 follows the staging tier (index space reset) and tier 2 narrows
\* tier 1, on a selection of the second record.
C3_Witness ==
    /\ StagedInOrder(2)
    /\ \A i \in 1..3 : ~trail[i].explicit /\ trail[i].raised = ""
    /\ mem_stage = 0
    /\ gpu_stage = 2
    /\ idxs[1] = <<1>>
    /\ idxs[2] = <<0>>
    /\ idxs[3] = <<0>>

\* C4: stage(name, idx=E) stores in idxs[tier] the tier's index space
\* selected by E, no random draw replaces it, and the rewards returned are
\* those selected by E.
C4_ExplicitIdxKept ==
    (call.op = "stage" /\ call.explicit.set /\ out.raised = "")
    => /\ idxs[call.stage + 1] = call.explicit.v
       /\ out.rewards = act([idxs EXCEPT ![call.stage + 1] = call.explicit.v],
                            mem_data, mem_rewards, gpu_data, gpu_rewards,
                            call.stage).rewards

\* C5: with mem_stage <= gpu_stage and the tiers staged in order, stage(t)
\* raises nothing and returns by residency: at or past gpu_stage the
\* accelerator cache (as it is at gpu_stage, narrowed by idxs[t] past it);
\* else at or past mem_stage the staging cache likewise; else no data and
\* the source rewards selected by idxs[t].
C5_ReturnsByResidency ==
    \A t \in Stages :
        (mem_stage <= gpu_stage /\ StagedInOrder(t))
        => /\ out.raised = ""
           /\ IF t >= gpu_stage
              THEN /\ gpu_data.set
                   /\ gpu_rewards.dev = Device
                   /\ out.rewards.dev = Device
                   /\ IF t = gpu_stage
                      THEN out.data = gpu_data /\ out.rewards = gpu_rewards
                      ELSE /\ out.data.set
                           /\ DataRows(out.data.d) = Take(DataRows(gpu_data.d), idxs[t + 1])
                           /\ out.rewards.rows = Take(gpu_rewards.rows, idxs[t + 1])
              ELSE IF t >= mem_stage
              THEN /\ mem_data.set
                   /\ out.rewards.dev = Host
                   /\ IF t = mem_stage
                      THEN out.data = mem_data /\ out.rewards = mem_rewards
                      ELSE /\ out.data.set
                           /\ DataRows(out.data.d) = Take(DataRows(mem_data.d), idxs[t + 1])
                           /\ out.rewards.rows = Take(mem_rewards.rows, idxs[t + 1])
              ELSE /\ out.data = NoData
                   /\ out.rewards.rows = Take(Arange(memory_len), idxs[t + 1])

\* C5 witness: tier 2 staged in order past gpu_stage = 1 > mem_stage = 0,
\* returning data from the accelerator cache.
C5_Witness ==
    /\ StagedInOrder(2)
    /\ mem_stage = 0
    /\ gpu_stage = 1
    /\ out.raised = ""
    /\ out.data.set
    /\ out.rewards.dev = Device

\* C6: with mem_stage <= gpu_stage and the tiers staged in order, every
\* source record whose reward or data row stage(t+1) returns is a record
\* that stage(t) returned.
C6_ProgressiveNarrowing ==
    mem_stage <= gpu_stage =>
        /\ \A i \in 1..(Len(trail) - 1) :
              (trail[i].raised = "" /\ trail[i + 1].raised = "")
              => Range(trail[i + 1].rows) \subseteq Range(trail[i].rows)
        /\ \A t \in 1..2 :
              (StagedInOrder(t) /\ out.raised = "" /\ out.data.set)
              => Range(DataRows(out.data.d)) \subseteq Range(trail[t].rows)

\* C6 witness: on two records, tier 0 returns only the reward of the
\* second one, and tiers 1 and 2, staged in order, return that record.
C6_Witness ==
    /\ StagedInOrder(2)
    /\ mem_stage = 1
    /\ gpu_stage = 2
    /\ trail[1].rows = <<1>>
    /\ trail[2].rows = <<1>>
    /\ out.raised = ""
    /\ DataRows(out.data.d) = <<1>>

\* The latest call was stage or act at the tier that is both mem_stage and
\* gpu_stage, and it returned.
ActedAtSharedTier ==
    /\ call.op \in {"stage", "act"}
    /\ call.stage = mem_stage
    /\ mem_stage = gpu_stage
    /\ out.raised = ""

\* C7 as stated: when gpu_stage = mem_stage, act at that tier produces the
\* accelerator data by a single copy taken directly from the source dataset
\* at idxs[tier], never by copying into staging and from staging to the
\* accelerator; afterwards the staging fields are unset or hold the rows and
\* rewards of the accelerator fields.
C7_SingleDirectCopy ==
    ActedAtSharedTier =>
        /\ \A i \in 1..Len(out.copies) :
              out.copies[i].dst = "gpu" => out.copies[i].src = "memory"
        /\ Len(out.copies) = 1
        /\ \/ ~mem_data.set
           \/ /\ DataRows(mem_data.d) = DataRows(gpu_data.d)
              /\ mem_rewards.rows = gpu_rewards.rows

\* C7 amended: when gpu_stage = mem_stage, act at that tier copies the rows
\* idxs[tier] of the source dataset into the staging fields and then
\* transfers that staging copy whole, without indexing it again, to the
\* accelerator fields; afterwards the accelerator fields hold exactly the
\* source rows and rewards at idxs[tier], and the staging fields hold the
\* same rows and rewards on the host.
C7_StagedThenTransferredWhole ==
    ActedAtSharedTier =>
        /\ out.copies = <<Copy("memory", "mem", TRUE), Copy("mem", "gpu", FALSE)>>
        /\ gpu_data = Data(dict_map_recursive_tensor_idx_to(
                               MemoryGetItem(idxs[call.stage + 1]), NoIdx, Device))
        /\ gpu_rewards.rows = Take(Arange(memory_len), idxs[call.stage + 1])
        /\ gpu_rewards.dev = Device
        /\ mem_data = Data(MemoryGetItem(idxs[call.stage + 1]))
        /\ mem_rewards.rows = gpu_rewards.rows
        /\ mem_rewards.dev = Host

\* C7 witness: stage at the shared tier 1, in order, on the second record.
C7_Witness ==
    /\ ActedAtSharedTier
    /\ StagedInOrder(1)
    /\ idxs[2] = <<1>>
    /\ gpu_data.set
    /\ mem_data.set

\* C8: with mem_stage <= gpu_stage, act(tier) called again for the same tier
\* with no sample in between returns what the call before it returned and
\* leaves mem_data, mem_rewards, gpu_data and gpu_rewards as they were.
C8_ActTwiceSame ==
    [][(call'.op = "act" /\ mem_stage <= gpu_stage)
       => /\ out'.raised = out.raised
          /\ out'.data = out.data
          /\ out'.rewards = out.rewards
          /\ mem_data' = mem_data
          /\ mem_rewards' = mem_rewards
          /\ gpu_data' = gpu_data
          /\ gpu_rewards' = gpu_rewards]_vars

\* C8 witness: act called again at gpu_stage, past mem_stage, where it
\* narrows the staging copy onto the device a second time.
C8_Witness ==
    /\ call.op = "act"
    /\ call.stage = gpu_stage
    /\ mem_stage < gpu_stage
    /\ out.raised = ""
    /\ out.data = gpu_data
    /\ gpu_data.set

\* The arrays the next stage('maxbatch') call can draw for idxs[0].
NextMaxbatchDraws == Choice(SampleFrom(idxs, 0), sizes[1])

\* C9 as stated: in a run of iterations that stage tiers 0, 1, 2 in order,
\* every stage('maxbatch') call draws idxs[0] from the full range 0..N-1
\* whatever the state, and every idxs entry and cache a stage call reads was
\* written earlier in the same iteration.
C9_NothingStaleRead ==
    /\ NextMaxbatchDraws = [1..sizes[1] -> 0..(memory_len - 1)]
    /\ \A t \in Stages : StagedInOrder(t) => call.stale = {}

\* C9 amended: the same, for the configurations with mem_stage <= gpu_stage.
C9_NothingStaleReadWhenOrdered ==
    /\ NextMaxbatchDraws = [1..sizes[1] -> 0..(memory_len - 1)]
    /\ \A t \in Stages :
          (mem_stage <= gpu_stage /\ StagedInOrder(t)) => call.stale = {}

\* C9 witness: a second iteration begins with stage 0 while idxs[1], idxs[2]
\* and the accelerator cache of the iteration before are still held.
C9_Witness ==
    /\ StagedInOrder(0)
    /\ mem_stage = 0
    /\ gpu_stage = 1
    /\ out.raised = ""
    /\ idxs[1] = <<1>>
    /\ Len(idxs[2]) > 0
    /\ Len(idxs[3]) > 0
    /\ gpu_data.set
    /\ DataRows(gpu_data.d) = <<0>>

\* C10: staging batch or minibatch while the tier before it has never been
\* staged raises an error or yields an empty selection, and never returns a
\* non-empty (data, rewards) result.
C10_UnstagedPredecessorDetected ==
    \A t \in 1..2 :
        (call.op = "stage" /\ call.stage = t /\ Len(idxs[t]) = 0)
        => /\ out.raised # "" \/ (Len(idxs[t + 1]) = 0 /\ Len(out.rewards.rows) = 0)
           /\ ~out.data.set
           /\ Len(out.rewards.rows) = 0

\* C10 witness: minibatch staged after maxbatch with batch skipped raises
\* ValueError.
C10_Witness ==
    /\ call.op = "stage"
    /\ call.stage = 2
    /\ Len(idxs[1]) > 0
    /\ Len(idxs[2]) = 0
    /\ out.raised = "ValueError"

\* C11: stage(name) with a name that is not 'maxbatch', 'batch' or
\* 'minibatch' raises KeyError before any sampling or materialization: idxs,
\* mem_data, mem_rewards, gpu_data and gpu_rewards are as before the call.
C11_UnknownNameKeyError ==
    [][\A name \in UnknownNames :
          StageByName(name)
          => /\ out'.raised = "KeyError"
             /\ ~out'.data.set
             /\ UNCHANGED <<idxs, mem_data, mem_rewards, gpu_data, gpu_rewards>>]_vars

\* C11 witness: a call with an unknown name has raised KeyError on a Sampler
\* that holds a selection at every tier and both caches.
C11_Witness ==
    /\ out.raised = "KeyError"
    /\ \A t \in 1..3 : Len(idxs[t]) = sizes[t]
    /\ mem_data.set
    /\ gpu_data.set

\* C12 as stated: the order of mem_stage and gpu_stage is not validated, and
\* with mem_stage > gpu_stage the stage calls of an iteration made in order
\* raise no error.
C12_MisorderedStagesSilent ==
    \A t \in Stages :
        (mem_stage > gpu_stage /\ StagedInOrder(t)) => out.raised = ""

\* C12 amended: with mem_stage > gpu_stage the stage calls made in order
\* before gpu_stage raise no error and return no data, and the stage call
\* at gpu_stage raises AttributeError and loads nothing onto the accelerator
\* for as long as no act at mem_stage has filled the staging cache, which is
\* always the case in the first iteration.
C12_MisorderedStagesRaise ==
    \A t \in Stages :
        (mem_stage > gpu_stage /\ StagedInOrder(t))
        => /\ t < gpu_stage => (out.raised = "" /\ ~out.data.set)
           /\ (t = gpu_stage /\ ~mem_data.set)
              => (out.raised = "AttributeError" /\ ~out.data.set /\ ~gpu_data.set)
           /\ gpu_data.set => mem_data.set

\* C12 witness: a Sampler constructed with mem_stage = 2 > gpu_stage = 1
\* stages tier 0 without error, and its first stage call at tier 1 raises
\* AttributeError.
C12_Witness ==
    /\ mem_stage = 2
    /\ gpu_stage = 1
    /\ StagedInOrder(1)
    /\ trail[1].raised = ""
    /\ ~mem_data.set
    /\ out.raised = "AttributeError"

\* Whether each of the seven lists holds n values.
AllOfLen(n) ==
    /\ Len(keys) = n
    /\ Len(states) = n
    /\ Len(actions) = n
    /\ Len(action_logs) = n
    /\ Len(state_vals) = n
    /\ Len(rewards) = n
    /\ Len(is_terminals) = n

\* C13: buffer.append(record) pushes exactly one value onto each of the
\* seven lists; after any sequence of append and clear calls the seven lists
\* have the same length and len(buffer) is that length.
C13_AppendPushesOne ==
    /\ buf_call.op = "append"
       => (buf_call.raised = "" /\ AllOfLen(buf_call.len_before + 1))
    /\ AllOfLen(BufferLen)

\* C14: clear() raises nothing and leaves each of the seven lists empty, so
\* that len(buffer) = 0, from any state, the empty buffer included; the
\* seven list objects are the ones bound before the call; and a clear that
\* follows a clear changes nothing.
C14_ClearEmptiesInPlace ==
    [][buf_call'.op = "clear"
       => /\ buf_call'.raised = ""
          /\ AllOfLen(0)'
          /\ BufferLen' = 0
          /\ container' = container
          /\ buf_call.op = "clear"
             => UNCHANGED <<keys, states, actions, action_logs, state_vals, rewards,
                            is_terminals, container>>]_vars

\* C14 witness: clear has emptied a buffer that held MaxLen records, and the
\* lists are those __init__ created.
C14_Witness ==
    /\ buf_call = BufCall("clear", "", MaxLen)
    /\ AllOfLen(0)
    /\ container = NewLists

\* C16: a stage(t) step, which is sample(t) then act(t), changes no idxs
\* entry but idxs[t], changes mem_data and mem_rewards only when t is
\* mem_stage and gpu_data and gpu_rewards only when t is gpu_stage, and
\* changes no cache field at all when sample raises and act does not run;
\* an act(t) step changes no idxs entry and the cache fields under the same
\* conditions; no step changes the source dataset, the tier sizes or the
\* configuration.
C16_SamplerFrame ==
    [][/\ call'.op \in {"stage", "act"}
          => /\ \A u \in Stages \ {call'.stage} : idxs'[u + 1] = idxs[u + 1]
             /\ call'.stage # mem_stage => UNCHANGED <<mem_data, mem_rewards>>
             /\ call'.stage # gpu_stage => UNCHANGED <<gpu_data, gpu_rewards>>
       /\ (call'.op = "stage" /\ out'.raised = "ValueError")
          => UNCHANGED <<mem_data, mem_rewards, gpu_data, gpu_rewards>>
       /\ call'.op = "act" => idxs' = idxs
       /\ UNCHANGED <<memory_len, sizes, mem_stage, gpu_stage>>]_vars

\* C16 witness: tier 2 staged in order past mem_stage = 0 and gpu_stage = 1,
\* with both caches held, and act run again at tier 2.
C16_Witness ==
    /\ call.op = "act"
    /\ call.stage = 2
    /\ mem_stage = 0
    /\ gpu_stage = 1
    /\ Len(trail) = 3
    /\ out.raised = ""
    /\ mem_data.set
    /\ gpu_data.set

\* The rows of every leaf of a node, and of every leaf of a dict of trees.
RECURSIVE LeafRows(_)
LeafRows(x) ==
    IF x.tag = "tensor" THEN {x.rows}
    ELSE UNION {LeafRows(x.members[m]) : m \in 1..Len(x.members)}
AllLeafRows(d) == UNION {LeafRows(d[k]) : k \in DOMAIN d}

RECURSIVE Expected(_, _, _)
Expected(x, idx, device) ==
    IF x.tag = "tensor"
    THEN Tensor(IF idx.set THEN Take(x.rows, idx.v) ELSE x.rows,
                IF device # NoDevice THEN device ELSE x.dev)
    ELSE IF x.tag = "dict"
    THEN DictOf([m \in 1..Len(x.members) |->
                    [key |-> x.members[m].key,
                     value |-> Expected(x.members[m].value, idx, device)]])
    ELSE ListOf([m \in 1..Len(x.members) |-> Expected(x.members[m], idx, device)])

\* Whether a dict lies in the tree x.
RECURSIVE HasMapping(_)
HasMapping(x) ==
    \/ x.tag = "dict"
    \/ x.tag = "list" /\ \E m \in 1..Len(x.members) : HasMapping(x.members[m])

\* The latest call of a tree utility returned the tree it is said to return
\* and left its argument as it was.
ReturnedExpected ==
    /\ tree.raised = ""
    /\ tree.after = tree.input
    /\ IF tree.op = "recursive_tensor_func"
       THEN tree.out = Expected(tree.input, tree.idx, tree.device)
       ELSE /\ DOMAIN tree.out = DOMAIN tree.input
            /\ \A k \in DOMAIN tree.input :
                  tree.out[k] = Expected(tree.input[k], tree.idx, tree.device)

\* C15 as stated: on every finite tree built from any nesting of ordered
\* sequences and mappings with tensor leaves, recursive_tensor_func and
\* dict_map_recursive_tensor_idx_to terminate and return a new tree of the
\* same nesting and keys, each leaf with rows idx selected (only when idx is
\* given) and then moved to the device (only when a device is given); the
\* input tree is not mutated.
C15_TreeMappedAnyNesting ==
    (tree.op # "none" /\ tree.done) => ReturnedExpected

\* C15 amended: the same, on the trees with no mapping below the top level:
\* any nesting of ordered sequences with tensor leaves for
\* recursive_tensor_func, and a mapping whose values are such nestings for
\* dict_map_recursive_tensor_idx_to.
C15_TreeMappedSequences ==
    /\ (tree.op = "recursive_tensor_func" /\ tree.done /\ ~HasMapping(tree.input))
       => ReturnedExpected
    /\ (/\ tree.op = "dict_map_recursive_tensor_idx_to"
        /\ tree.done
        /\ \A k \in DOMAIN tree.input : ~HasMapping(tree.input[k]))
       => ReturnedExpected

\* C15 witness: dict_map_recursive_tensor_idx_to with idx [1, 0] and the
\* accelerator on a dict whose value nests a list in a list: the leaves come
\* back with rows 1, 0 on the accelerator.
C15_Witness ==
    /\ tree.op = "dict_map_recursive_tensor_idx_to"
    /\ tree.done
    /\ tree.input["states"] = ListOf(<<Leaf, ListOf(<<Leaf>>)>>)
    /\ tree.idx = Idx(<<1, 0>>)
    /\ tree.device = Device
    /\ tree.raised = ""
    /\ tree.out["states"] = ListOf(<<Tensor(<<1, 0>>, Device),
                                      ListOf(<<Tensor(<<1, 0>>, Device)>>)>>)
    /\ tree.out["actions"] = Tensor(<<1, 0>>, Device)


\* ----------------------------------------------------- claims: EarlyStopping
\* The last reset among the first i entries of the log, 0 when there is none.
RECURSIVE LastReset(_, _)
LastReset(log, i) ==
    IF i = 0 THEN 0
    ELSE IF log[i].op = "reset" THEN i
    ELSE LastReset(log, i - 1)

\* Entry i is an observation, and with it enough observations are recorded
\* since construction or the last reset for the method to have a value.
Ready(e, log, i) ==
    /\ log[i].op = "__call__"
    /\ e.method = "absolute" \/ i - LastReset(log, i) >= e.window_size

\* The value a ready entry i is judged by, in units of 1/window_size: its
\* objective, or the mean of the window_size latest objectives.
RECURSIVE Observed(_, _, _)
Observed(e, log, i) ==
    IF e.method = "absolute" THEN log[i].objective * e.window_size
    ELSE SumOf([j \in 1..e.window_size |->
                    log[i - e.window_size + j].objective])

\* What the instance held before entry i.
Before(log, i) ==
    IF i = 1 THEN [best |-> Unset, threshold |-> Unset, lapses |-> 0]
    ELSE [best |-> log[i - 1].best, threshold |-> log[i - 1].threshold,
          lapses |-> log[i - 1].lapses]

\* x is beyond the threshold of best: x > best + delta, or x < best - delta
\* when decreasing.
Beyond(e, x, best) ==
    IF e.decreasing THEN x < best - e.delta * e.window_size
    ELSE x > best + e.delta * e.window_size

\* The best a ready entry i is compared to: the one held, or the observed
\* value itself when none is held.
Compared(e, log, i) ==
    IF Before(log, i).best.set THEN Before(log, i).best.v
    ELSE Observed(e, log, i)

\* Entry i is a ready observation that improves beyond the threshold.
Improved(e, log, i) ==
    /\ Ready(e, log, i)
    /\ Beyond(e, Observed(e, log, i), Compared(e, log, i))

\* The ready observations up to entry i since the last one that improved,
\* or since construction or the last reset.
RECURSIVE LapsesSince(_, _, _)
LapsesSince(e, log, i) ==
    IF i = 0 THEN 0
    ELSE IF ~Ready(e, log, i) \/ Improved(e, log, i) THEN 0
    ELSE 1 + LapsesSince(e, log, i - 1)

\* C18: a call of __call__ that is ready returns True exactly when the lapses
\* it leaves are at least buffer, the lapses being the number of ready
\* observations since the last one that improved beyond the threshold; an
\* improving observation becomes best, the threshold is best plus or minus
\* delta, and the lapses are 0; a call made with 'average' before window_size
\* observations are recorded returns False and leaves best, threshold and
\* lapses as they were.
C18_TrueExactlyAtBufferLapses ==
    LET n == Len(es_log)
    IN  (n > 0 /\ es_log[n].op = "__call__") =>
        LET last == es_log[n]
            before == Before(es_log, n)
        IN  IF ~Ready(es, es_log, n)
            THEN /\ es.method = "average"
                 /\ ~last.ret
                 /\ last.best = before.best
                 /\ last.threshold = before.threshold
                 /\ last.lapses = before.lapses
            ELSE LET x == Observed(es, es_log, n)
                 IN  /\ last.ret = (last.lapses >= es.buffer)
                     /\ last.lapses = LapsesSince(es, es_log, n)
                     /\ es.lapses = last.lapses
                     /\ last.threshold.set /\ last.best.set
                     /\ last.threshold.v = last.best.v
                          + (IF es.decreasing THEN -1 ELSE 1)
                            * es.delta * es.window_size
                     /\ IF Improved(es, es_log, n)
                        THEN last.best.v = x /\ last.lapses = 0
                        ELSE last.best.v = Compared(es, es_log, n)

\* C18 witness: with 'average' over a window of two and a buffer of one, a
\* call before the window is full returned False, a later observation
\* improved and returned False, and the last call is a lapse that returns
\* True.
C18_Witness ==
    /\ es.method = "average"
    /\ es.window_size = 2
    /\ es.buffer = 1
    /\ Len(es_log) = 4
    /\ ~Ready(es, es_log, 1) /\ ~es_log[1].ret
    /\ Improved(es, es_log, 3) /\ ~es_log[3].ret
    /\ Ready(es, es_log, 4) /\ ~Improved(es, es_log, 4)
    /\ es_log[4].ret
    /\ es.lapses = 1


\* Entries i+1..j are calls of which no ready one improves.
NoneImproves(e, log, i, j) ==
    \A k \in (i + 1)..j :
        log[k].op = "__call__" /\ ~Improved(e, log, k)

\* The ready observations among entries i+1..j.
ReadyAmong(e, log, i, j) ==
    Cardinality({k \in (i + 1)..j : Ready(e, log, k)})

\* C19: when from some call onward no ready observation improves beyond the
\* threshold, every ready call from the buffer-th ready observation on
\* returns True, so until an observation improves; and with delta >= 0,
\* between resets best never grows when decreasing and never shrinks
\* otherwise.
C19_BoundedResponse ==
    LET n == Len(es_log)
    IN  /\ \A i \in 0..n : \A j \in (i + 1)..n :
              ( /\ NoneImproves(es, es_log, i, j)
                /\ Ready(es, es_log, j)
                /\ ReadyAmong(es, es_log, i, j) >= es.buffer )
              => es_log[j].ret
        /\ es.delta >= 0 =>
              \A k \in 2..n :
                  ( /\ es_log[k].op = "__call__"
                    /\ es_log[k - 1].best.set )
                  => /\ es_log[k].best.set
                     /\ IF es.decreasing
                        THEN es_log[k].best.v <= es_log[k - 1].best.v
                        ELSE es_log[k].best.v >= es_log[k - 1].best.v

\* C19 witness: with a buffer of two and delta >= 0, the first observation
\* returns False, the second and the third, which do not improve, return
\* True, and the fourth improves, moves best up and returns False.
C19_Witness ==
    /\ es.buffer = 2
    /\ es.delta >= 0
    /\ ~es.decreasing
    /\ Len(es_log) = 4
    /\ NoneImproves(es, es_log, 0, 3)
    /\ ReadyAmong(es, es_log, 0, 3) = 3
    /\ ~es_log[1].ret /\ es_log[2].ret /\ es_log[3].ret
    /\ Improved(es, es_log, 4)
    /\ ~es_log[4].ret
    /\ es_log[4].best.v > es_log[3].best.v


\* A freshly constructed instance with the parameters of e.
FreshlyConstructed(e) ==
    EarlyStopping(e.method, e.buffer, e.delta, e.decreasing, e.window_size)

\* What instance e answers to the observations obs, one after the other,
\* and the instance it ends as.
RECURSIVE Answers(_, _)
Answers(e, obs) ==
    IF obs = <<>> THEN [es |-> e, rets |-> <<>>]
    ELSE LET r == __call__(e, Head(obs))
             rest == Answers(r.es, Tail(obs))
         IN  [es |-> rest.es, rets |-> <<r.ret>> \o rest.rets]

\* C20: after calls followed by reset(), the instance has an empty history,
\* no current, best or threshold, and no lapses, and it returns to every
\* sequence of observations made since what a freshly constructed instance
\* with the same parameters returns, ending in the same state.
C20_ResetAsFresh ==
    LET n == Len(es_log)
        r == LastReset(es_log, n)
    IN  r > 0 =>
        LET since == [k \in 1..(n - r) |-> es_log[r + k]]
            fresh == Answers(FreshlyConstructed(es),
                             [k \in 1..(n - r) |-> since[k].objective])
        IN  /\ n = r => /\ es.history = <<>>
                        /\ ~es.current.set /\ ~es.best.set
                        /\ ~es.threshold.set
                        /\ es.lapses = 0
            /\ fresh.rets = [k \in 1..(n - r) |-> since[k].ret]
            /\ fresh.es = es

\* C20 witness: with 'average' over a window of two, two observations left
\* a best and a lapse behind and the second returned True; after reset()
\* the next observation returns False as the first one did, with one
\* objective in the history.
C20_Witness ==
    /\ es.method = "average"
    /\ es.window_size = 2
    /\ Len(es_log) = 4
    /\ es_log[1].op = "__call__" /\ ~es_log[1].ret
    /\ es_log[2].op = "__call__" /\ es_log[2].ret
    /\ es_log[2].best.set /\ es_log[2].lapses = 1
    /\ es_log[3].op = "reset"
    /\ es_log[4].op = "__call__" /\ ~es_log[4].ret
    /\ Len(es.history) = 1
    /\ ~es.best.set


\* ------------------------------------------------- claims: RunningStatistics
\* C21: variance() never divides by zero: for every n_set and every number
\* of update calls since construction or reset, it raises nothing and
\* either returns 0 without dividing or divides m2 by a value >= 1.
C21_VarianceDivisorAtLeastOne ==
    stats_call.op = "variance" =>
        /\ stats_call.raised = ""
        /\ IF stats_call.divided THEN stats_call.divisor >= 1
           ELSE stats_call.ret = Whole(0)

====
